---------------------------- MODULE Spec2Model ----------------------------
(***************************************************************************)
(* A model of the tabular pipelines of the repository:                     *)
(*   - interpolate_wau_share, the piecewise-linear estimator               *)
(*     (Team_Projects/AI_Readiness_Measures/load_ai_users_data.py);        *)
(*   - load_ai_users_data, the fetch / join / derive pipeline of the same  *)
(*     file, and its lookup iso2_to_iso3;                                  *)
(*   - download_data (economic_index_analysis.py);                         *)
(*   - load_and_clean_data and merge_datasets                              *)
(*     (Team_Projects/Table4/comprehensive_analysis.py).                   *)
(*                                                                         *)
(* Floating-point values are modelled as exact rationals extended with     *)
(* NaN (pandas' null) and the two infinities; rounding is not modelled.    *)
(***************************************************************************)
EXTENDS Integers, Sequences, FiniteSets, Bags, TLC

VARIABLES
    pc,            \* position of the running script
    wau_df,        \* the WAU-share-by-GDP table (rows: time_period, gdp, wau)
    time_period,   \* the requested period label
    gdp_k,         \* the query of interpolate_wau_share
    period_data,   \* the selected, sorted reference curve
    wau_share,     \* the value interpolate_wau_share returned
    anthropic_df,  \* the Anthropic Economic Index table, as fetched
    findex_df,     \* the Global Findex table, as fetched
    claude_df,     \* get_claude_users' result
    gdp_df,        \* get_gdp_per_capita's result
    chatgpt_df,    \* estimate_chatgpt_users' result
    combined,      \* the joined table of load_ai_users_data
    result,        \* the table load_ai_users_data returns
    public_sector, \* the long public-sector table
    flfp,          \* the long female-labour-force-participation table
    unemployment,  \* the long female-unemployment table
    merged,        \* the table merge_datasets is building
    csv,           \* the wide table read_csv returned to load_and_clean_data
    iso_calls,     \* the calls of iso2_to_iso3 made so far: argument and result
    requests_get,  \* the HTTP requests made so far: url, timeout and outcome
    main_df        \* df of main, the table download_data returned (economic_index_analysis.py)

interpVars == <<wau_df, time_period, gdp_k, period_data, wau_share>>
aiVars == <<anthropic_df, findex_df, claude_df, gdp_df, chatgpt_df, combined, result>>
table4Vars == <<public_sector, flfp, unemployment, merged, csv>>

isoVars == <<iso_calls>>
httpVars == <<requests_get, main_df>>

vars == <<pc, interpVars, aiVars, table4Vars, isoVars, httpVars>>

---------------------------------------------------------------------------
(* Bounds of the model.                                                    *)

\* rows of the WAU table
MaxWauRows == 4
\* the curve's x values are 1..MaxGdpK (thousands of USD)
MaxGdpK == 3
\* the curve's y values are 0..MaxShare
MaxShare == 1

---------------------------------------------------------------------------
(* Floats: exact rationals n/d in lowest terms (d > 0), NaN, +inf, -inf.   *)

Abs(i) == IF i < 0 THEN -i ELSE i

RECURSIVE GCD(_, _)
GCD(a, b) == IF b = 0 THEN a ELSE GCD(b, a % b)

NaN == [k |-> "nan", n |-> 0, d |-> 1]
PosInf == [k |-> "inf", n |-> 1, d |-> 1]
NegInf == [k |-> "inf", n |-> -1, d |-> 1]

Num(n, d) ==
    LET g == GCD(Abs(n), d)
    IN  [k |-> "num", n |-> n \div g, d |-> d \div g]

IsNum(a) == a.k = "num"
IsNaN(a) == a.k = "nan"
IsInf(a) == a.k = "inf"

\* the sign of a float that is not NaN: -1, 0 or 1
Sign(a) == IF a.n < 0 THEN -1 ELSE IF a.n > 0 THEN 1 ELSE 0

\* a <= b, a < b, a >= b, a > b: every comparison with NaN is false
FLe(a, b) ==
    /\ ~IsNaN(a) /\ ~IsNaN(b)
    /\ IF IsNum(a) /\ IsNum(b) THEN a.n * b.d <= b.n * a.d
       ELSE IF IsInf(a) THEN a.n < 0 \/ a = b
       ELSE b.n > 0
FLt(a, b) == FLe(a, b) /\ a # b
FGe(a, b) == FLe(b, a)
FGt(a, b) == FLt(b, a)

FNeg(a) == IF IsNaN(a) THEN NaN ELSE [a EXCEPT !.n = -a.n]

FAdd(a, b) ==
    IF IsNaN(a) \/ IsNaN(b) THEN NaN
    ELSE IF IsNum(a) /\ IsNum(b) THEN Num(a.n * b.d + b.n * a.d, a.d * b.d)
    ELSE IF IsInf(a) /\ IsInf(b) THEN (IF a = b THEN a ELSE NaN)
    ELSE IF IsInf(a) THEN a ELSE b

FSub(a, b) == FAdd(a, FNeg(b))

FMul(a, b) ==
    IF IsNaN(a) \/ IsNaN(b) THEN NaN
    ELSE IF IsNum(a) /\ IsNum(b) THEN Num(a.n * b.n, a.d * b.d)
    ELSE IF Sign(a) * Sign(b) = 0 THEN NaN
    ELSE IF Sign(a) * Sign(b) > 0 THEN PosInf ELSE NegInf

\* IEEE division: x/0 is +-inf for x # 0 and NaN for x = 0
FDiv(a, b) ==
    IF IsNaN(a) \/ IsNaN(b) THEN NaN
    ELSE IF IsInf(a) /\ IsInf(b) THEN NaN
    ELSE IF IsInf(a) THEN (IF Sign(a) * Sign(b) >= 0 THEN PosInf ELSE NegInf)
    ELSE IF IsInf(b) THEN Num(0, 1)
    ELSE IF b.n = 0 THEN (IF a.n = 0 THEN NaN
                          ELSE IF a.n > 0 THEN PosInf ELSE NegInf)
    ELSE IF b.n > 0 THEN Num(a.n * b.d, a.d * b.n)
    ELSE Num(-(a.n * b.d), a.d * (-b.n))

---------------------------------------------------------------------------
(* Sequences.                                                              *)

SeqToBag(s) == [r \in {s[i] : i \in DOMAIN s} |-> Cardinality({i \in DOMAIN s : s[i] = r})]


---------------------------------------------------------------------------
(* interpolate_wau_share (load_ai_users_data.py, lines 121-143).           *)

\* the period labels of the WAU table
Periods == {"May 2025", "Jun 2024"}

\* the rows load_wau_data can read: every (x, y) of the requested-by-default
\* period, and one row of another period
WauRows ==
    {[time_period |-> "May 2025",
      gdp_per_capita_thousands_usd |-> Num(x, 1),
      median_wau_share_internet_users |-> Num(y, 1)] : x \in 1..MaxGdpK, y \in 0..MaxShare}
    \cup
    {[time_period |-> "Jun 2024",
      gdp_per_capita_thousands_usd |-> Num(1, 1),
      median_wau_share_internet_users |-> Num(1, 1)]}

\* the queries: NaN and the multiples of 1/2 from 0 to MaxGdpK + 1
Queries == {Num(i, 2) : i \in 0..(2 * MaxGdpK + 2)} \cup {NaN}

\* an arbitrary total order on the rows, used only to read each table once
\* whatever the order of its rows (SortValues does not depend on that order)
RowRank(r) ==
    (r.median_wau_share_internet_users.n * (MaxGdpK + 1)
        + r.gdp_per_capita_thousands_usd.n) * 2
    + (IF r.time_period = "May 2025" THEN 0 ELSE 1)

\* wau_df[wau_df['time_period'] == time_period]
FilterPeriod(df, tp) == SelectSeq(df, LAMBDA r : r.time_period = tp)

\* s without its i-th element
RemoveAt(s, i) == SubSeq(s, 1, i - 1) \o SubSeq(s, i + 1, Len(s))

RECURSIVE SortValues(_)
\* .sort_values('gdp_per_capita_thousands_usd'): the default sort is not
\* stable, so rows of equal x may come out in any order. The set of the
\* arrangements of df that ascend in x: any row of least x, then the rest.
SortValues(df) ==
    IF df = <<>> THEN {<<>>}
    ELSE UNION {{<<df[i]>> \o t : t \in SortValues(RemoveAt(df, i))} :
                  i \in {j \in 1..Len(df) :
                           \A m \in 1..Len(df) :
                               FLe(df[j].gdp_per_capita_thousands_usd,
                                   df[m].gdp_per_capita_thousands_usd)}}

gdp_values(pd) == [i \in 1..Len(pd) |-> pd[i].gdp_per_capita_thousands_usd]
wau_values(pd) == [i \in 1..Len(pd) |-> pd[i].median_wau_share_internet_users]

\* the interpolation weight measured from the wrong end of the segment
LinearInterpolationFromRight(x0, y0, x1, y1, x) ==
    LET t == FDiv(FSub(x1, x), FSub(x1, x0))
    IN  FAdd(y0, FMul(t, FSub(y1, y0)))

\* the offset x - x0 not divided by the width of the segment
LinearInterpolationUnscaled(x0, y0, x1, y1, x) ==
    FAdd(y0, FMul(FSub(x, x0), FSub(y1, y0)))

\* lines 140-141: t = (x - x0) / (x1 - x0); y0 + t * (y1 - y0)
LinearInterpolation(x0, y0, x1, y1, x) ==
    LET t == FDiv(FSub(x, x0), FSub(x1, x0))
    IN  FAdd(y0, FMul(t, FSub(y1, y0)))

\* the test of line 139 with < in place of <=
BracketingStrict(gv, x) ==
    {i \in 1..(Len(gv) - 1) : FLt(gv[i], x) /\ FLt(x, gv[i + 1])}

\* lines 138-139: the segments the scan accepts, in scan order
Bracketing(gv, x) ==
    {i \in 1..(Len(gv) - 1) : FLe(gv[i], x) /\ FLe(x, gv[i + 1])}

Min(S) == CHOOSE i \in S : \A j \in S : i <= j

\* the clamp above the range returning the first point's y
InterpolateSortedClampFirst(x, pd) ==
    LET gv == gdp_values(pd)
        wv == wau_values(pd)
        n  == Len(pd)
    IN  IF pd = <<>> THEN Num(0, 1)
        ELSE IF FLe(x, gv[1]) THEN wv[1]
        ELSE IF FGe(x, gv[n]) THEN wv[1]
        ELSE IF Bracketing(gv, x) # {}
             THEN LET i == Min(Bracketing(gv, x))
                  IN  LinearInterpolation(gv[i], wv[i], gv[i + 1], wv[i + 1], x)
        ELSE wv[n]

\* no early return for the empty curve: the default is not 0.0
InterpolateSortedNoDefault(x, pd) ==
    LET gv == gdp_values(pd)
        wv == wau_values(pd)
        n  == Len(pd)
    IN  IF pd = <<>> THEN NaN
        ELSE IF FLe(x, gv[1]) THEN wv[1]
        ELSE IF FGe(x, gv[n]) THEN wv[n]
        ELSE IF Bracketing(gv, x) # {}
             THEN LET i == Min(Bracketing(gv, x))
                  IN  LinearInterpolation(gv[i], wv[i], gv[i + 1], wv[i + 1], x)
        ELSE wv[n]

\* lines 125-143 on the selected, sorted rows
InterpolateSorted(x, pd) ==
    LET gv == gdp_values(pd)
        wv == wau_values(pd)
        n  == Len(pd)
    IN  IF pd = <<>> THEN Num(0, 1)
        ELSE IF FLe(x, gv[1]) THEN wv[1]
        ELSE IF FGe(x, gv[n]) THEN wv[n]
        ELSE IF Bracketing(gv, x) # {}
             THEN LET i == Min(Bracketing(gv, x))
                  IN  LinearInterpolation(gv[i], wv[i], gv[i + 1], wv[i + 1], x)
        ELSE wv[n]

\* lines 125-143: the line of the return statement the call ends at
ReturnLine(x, pd) ==
    LET gv == gdp_values(pd)
    IN  IF pd = <<>> THEN 126
        ELSE IF FLe(x, gv[1]) THEN 133
        ELSE IF FGe(x, gv[Len(pd)]) THEN 135
        ELSE IF Bracketing(gv, x) # {} THEN 141
        ELSE 143

\* the tables of the other scripts, not yet built
AiIdle ==
    /\ anthropic_df = <<>> /\ findex_df = <<>> /\ claude_df = <<>> /\ gdp_df = <<>>
    /\ chatgpt_df = <<>> /\ combined = <<>> /\ result = <<>>
Table4Idle ==
    /\ public_sector = <<>> /\ flfp = <<>> /\ unemployment = <<>> /\ merged = <<>>
    /\ csv = [columns |-> <<>>, rows |-> <<>>]
\* no call of iso2_to_iso3 and no HTTP request made yet
NoCalls == iso_calls = <<>> /\ requests_get = <<>> /\ main_df = <<>>

\* load_wau_data reads one more row of the file
ReadWauRow ==
    /\ pc = "read_wau"
    /\ Len(wau_df) < MaxWauRows
    /\ \E r \in WauRows :
          /\ wau_df # <<>> => RowRank(wau_df[Len(wau_df)]) <= RowRank(r)
          /\ wau_df' = Append(wau_df, r)
    /\ UNCHANGED <<pc, time_period, gdp_k, period_data, wau_share, aiVars, table4Vars>>
    /\ UNCHANGED <<isoVars, httpVars>>

\* interpolate_wau_share(gdp_k, wau_df, time_period), called on the table read
InterpolateWauShare ==
    /\ pc = "read_wau"
    /\ \E x \in Queries, tp \in Periods :
        \E pd \in SortValues(FilterPeriod(wau_df, tp)) :
          /\ gdp_k' = x
          /\ time_period' = tp
          /\ period_data' = pd
          /\ wau_share' = InterpolateSorted(x, pd)
    /\ pc' = "interpolated"
    /\ UNCHANGED <<wau_df, aiVars, table4Vars>>
    /\ UNCHANGED <<isoVars, httpVars>>

InitInterp ==
    /\ pc = "read_wau"
    /\ wau_df = <<>>
    /\ time_period = "May 2025"
    /\ gdp_k = NaN
    /\ period_data = <<>>
    /\ wau_share = NaN
    /\ AiIdle
    /\ Table4Idle
    /\ NoCalls

NextInterp == ReadWauRow \/ InterpolateWauShare

SpecInterp == InitInterp /\ [][NextInterp]_vars

---------------------------------------------------------------------------
(* Claims about interpolate_wau_share, checked under SpecInterp.           *)

Interpolated == pc = "interpolated"
FirstX == period_data[1].gdp_per_capita_thousands_usd
FirstY == period_data[1].median_wau_share_internet_users
LastX == period_data[Len(period_data)].gdp_per_capita_thousands_usd
LastY == period_data[Len(period_data)].median_wau_share_internet_users
PointX(i) == period_data[i].gdp_per_capita_thousands_usd
PointY(i) == period_data[i].median_wau_share_internet_users
Interior(x) == period_data # <<>> /\ FLt(FirstX, x) /\ FLt(x, LastX)

\* C1 as stated: on a non-empty curve a query at or below the smallest x
\* returns the first point's y, and a query at or above the largest x returns
\* the last point's y.
C1_ClampBothEnds ==
    (Interpolated /\ period_data # <<>>) =>
        /\ FLe(gdp_k, FirstX) => wau_share = FirstY
        /\ FGe(gdp_k, LastX) => wau_share = LastY

\* C1, amended: a query at or below the smallest x returns the first point's
\* y; a query at or above the largest x and above the smallest x returns the
\* last point's y (when all curve x are equal and the query equals them, the
\* lower clamp is taken).
C1_Clamp ==
    (Interpolated /\ period_data # <<>>) =>
        /\ FLe(gdp_k, FirstX) => wau_share = FirstY
        /\ (FGe(gdp_k, LastX) /\ FGt(gdp_k, FirstX)) => wau_share = LastY

\* both clamps are taken on a curve of several points with different ends
C1_Witness ==
    /\ Interpolated /\ Len(period_data) >= 2
    /\ FirstY # LastY /\ FLt(FirstX, LastX)
    /\ FGe(gdp_k, LastX) /\ wau_share = LastY

\* the value of the formula of C2 on segment i
SegmentValue(i, x) ==
    FAdd(PointY(i),
         FMul(FDiv(FSub(x, PointX(i)), FSub(PointX(i + 1), PointX(i))),
              FSub(PointY(i + 1), PointY(i))))

C2_Formula ==
    (Interpolated /\ Len(period_data) >= 2 /\ Interior(gdp_k)) =>
        \E i \in 1..(Len(period_data) - 1) :
            /\ FLe(PointX(i), gdp_k) /\ FLe(gdp_k, PointX(i + 1))
            /\ FLt(PointX(i), PointX(i + 1))
            /\ wau_share = SegmentValue(i, gdp_k)

\* the curve [(10, 0.1), (20, 0.3)] queried at 15 gives 0.2
C2_Example ==
    InterpolateSorted(Num(15, 1),
        <<[time_period |-> "May 2025", gdp_per_capita_thousands_usd |-> Num(10, 1),
           median_wau_share_internet_users |-> Num(1, 10)],
          [time_period |-> "May 2025", gdp_per_capita_thousands_usd |-> Num(20, 1),
           median_wau_share_internet_users |-> Num(3, 10)]>>) = Num(2, 10)

\* C2 as stated: strictly inside the curve's range the result is the linear
\* interpolation on a segment containing the query, the example curve gives
\* 0.2, and a query at an interior curve point gives that point's y.
C2_InteriorPointGivesItsY ==
    /\ C2_Formula
    /\ C2_Example
    /\ (Interpolated /\ Len(period_data) >= 2 /\ Interior(gdp_k)) =>
          \A i \in 1..Len(period_data) : PointX(i) = gdp_k => wau_share = PointY(i)

\* C2, amended: as stated, except that a query at an interior curve point
\* gives the y of the first curve point with that x (that point's own y when
\* no earlier point of the sorted curve has the same x).
C2_Interpolation ==
    /\ C2_Formula
    /\ C2_Example
    /\ (Interpolated /\ Len(period_data) >= 2 /\ Interior(gdp_k)) =>
          \A i \in 1..Len(period_data) :
              (PointX(i) = gdp_k /\ \A j \in 1..(i - 1) : PointX(j) # gdp_k)
                  => wau_share = PointY(i)

\* a query strictly inside a segment with different end values, and a query
\* at an interior curve point, both occur
C2_Witness ==
    /\ Interpolated /\ Len(period_data) >= 3 /\ Interior(gdp_k)
    /\ \E i \in 2..(Len(period_data) - 1) : PointX(i) = gdp_k /\ wau_share = PointY(i)

C2_WitnessInside ==
    /\ Interpolated /\ Len(period_data) >= 2 /\ Interior(gdp_k)
    /\ \A i \in 1..Len(period_data) : PointX(i) # gdp_k
    /\ wau_share # FirstY /\ wau_share # LastY

\* v lies between a and b
Between(v, a, b) == (FLe(a, v) /\ FLe(v, b)) \/ (FLe(b, v) /\ FLe(v, a))

\* C3: for adjacent curve points i, i+1 and queries x1 <= x2 strictly between
\* their x: both estimates lie between y_i and y_(i+1), and they are ordered
\* as y_i and y_(i+1) are. x1 is the query of the call made, x2 any query.
C3_MonotonicOnSegment ==
    Interpolated =>
        \A i \in 1..(Len(period_data) - 1) : \A x2 \in Queries :
            (/\ FLt(PointX(i), gdp_k) /\ FLe(gdp_k, x2) /\ FLt(x2, PointX(i + 1)))
            => /\ Between(wau_share, PointY(i), PointY(i + 1))
               /\ Between(InterpolateSorted(x2, period_data), PointY(i), PointY(i + 1))
               /\ FLe(PointY(i), PointY(i + 1))
                     => FLe(wau_share, InterpolateSorted(x2, period_data))
               /\ FGe(PointY(i), PointY(i + 1))
                     => FGe(wau_share, InterpolateSorted(x2, period_data))

\* two different queries inside one descending segment, with different estimates
C3_Witness ==
    /\ Interpolated
    /\ \E i \in 1..(Len(period_data) - 1) : \E x2 \in Queries :
          /\ FLt(PointX(i), gdp_k) /\ FLt(gdp_k, x2) /\ FLt(x2, PointX(i + 1))
          /\ FGt(PointY(i), PointY(i + 1))
          /\ FGt(wau_share, InterpolateSorted(x2, period_data))

\* C4: when no row of the WAU table has the requested period (the table may
\* be empty), interpolate_wau_share returns 0.0 for every query.
C4_EmptyCurveDefault ==
    (Interpolated /\ period_data = <<>>) => wau_share = Num(0, 1)

\* a table with rows, none of the requested period, queried with a number
C4_Witness ==
    /\ Interpolated /\ period_data = <<>> /\ wau_df # <<>>
    /\ IsNum(gdp_k) /\ wau_share = Num(0, 1)

\* the segments of the selected curve that line 139 accepts for the query
Accepted == Bracketing(gdp_values(period_data), gdp_k)

\* C16: on a non-empty sorted curve (equal x values allowed) and for a query
\* strictly between its smallest and largest x, the scan of lines 138-141
\* finds a segment containing the query; the first one it finds, which is
\* the one used, has different end x values, so that the divisor of line 140
\* is not zero; and the call returns at line 141, never at line 143.
C16_SegmentFound ==
    (Interpolated /\ Interior(gdp_k)) =>
        /\ Accepted # {}
        /\ FLt(PointX(Min(Accepted)), PointX(Min(Accepted) + 1))
        /\ FSub(PointX(Min(Accepted) + 1), PointX(Min(Accepted))) # Num(0, 1)
        /\ wau_share = SegmentValue(Min(Accepted), gdp_k)
        /\ ReturnLine(gdp_k, period_data) = 141

\* a query at an x that two curve points share: a segment of zero width
\* contains it, and is not the first the scan finds
C16_Witness ==
    /\ Interpolated /\ Interior(gdp_k)
    /\ \E i \in Accepted : PointX(i) = PointX(i + 1) /\ Min(Accepted) < i
    /\ ReturnLine(gdp_k, period_data) = 141

---------------------------------------------------------------------------
(* Tables and joins (pandas.DataFrame.merge).                              *)

\* pandas' null in a column of strings
NullStr == "NaN"

MapSeq(s, F(_)) == [i \in 1..Len(s) |-> F(s[i])]

\* the sequences over S of length at most n
SeqsUpTo(S, n) == UNION {[1..m -> S] : m \in 0..n}

\* the key columns compared with "or" instead of "and"
MatchingAny(df, l, on) == SelectSeq(df, LAMBDA r : \E c \in on : r[c] = l[c])

\* the rows of df whose key columns `on` equal those of row l
Matching(df, l, on) == SelectSeq(df, LAMBDA r : \A c \in on : r[c] = l[c])

RECURSIVE InnerMerge(_, _, _)
\* left.merge(right, on=on, how='inner'): for each left row, in order, one
\* output row per right row with the same key, in the right table's order
InnerMerge(left, right, on) ==
    IF left = <<>> THEN <<>>
    ELSE MapSeq(Matching(right, Head(left), on), LAMBDA r : Head(left) @@ r)
         \o InnerMerge(Tail(left), right, on)

\* the order pandas sorts the keys of an outer join in: lexicographic
KeyOrder == <<"FRA", "USA", "not_classified">>
KeyRank(code) == CHOOSE i \in 1..Len(KeyOrder) : KeyOrder[i] = code

\* the rows of an outer join for one key value
OuterRowsOfKey(left, right, key, v, leftNull, rightNull) ==
    LET ls == SelectSeq(left, LAMBDA l : l[key] = v)
        rs == SelectSeq(right, LAMBDA r : r[key] = v)
    IN  IF rs = <<>> THEN MapSeq(ls, LAMBDA l : l @@ rightNull)
        ELSE IF ls = <<>> THEN MapSeq(rs, LAMBDA r : r @@ leftNull)
        ELSE InnerMerge(ls, rs, {key})

RECURSIVE OuterMergeKeys(_, _, _, _, _, _)
OuterMergeKeys(left, right, key, keys, leftNull, rightNull) ==
    IF keys = {} THEN <<>>
    ELSE LET v == CHOOSE a \in keys : \A b \in keys : KeyRank(a) <= KeyRank(b)
         IN  OuterRowsOfKey(left, right, key, v, leftNull, rightNull)
             \o OuterMergeKeys(left, right, key, keys \ {v}, leftNull, rightNull)

\* left.merge(right, on=key, how='outer'): the keys of both tables in sorted
\* order; a key of one table only gets the other table's columns as nulls
\* (leftNull, rightNull: the null columns of a missing left or right row)
OuterMerge(left, right, key, leftNull, rightNull) ==
    OuterMergeKeys(left, right, key,
                   {left[i][key] : i \in 1..Len(left)} \cup {right[i][key] : i \in 1..Len(right)},
                   leftNull, rightNull)

---------------------------------------------------------------------------
(* load_ai_users_data (load_ai_users_data.py, lines 61-118 and 146-233).   *)

\* rows of the fetched Anthropic table
MaxAnthropicRows == 2
\* rows of the fetched Findex table
MaxFindexRows == 1
\* line 169: GDP per capita is divided by 1000 for the WAU lookup
GdpScale == 1000

GeoName(code) == IF code = "FRA" THEN "France" ELSE "United States"
FindexName(code) == IF code = "FRA" THEN "France (WB)" ELSE "United States (WB)"

AnthropicRow(f, v, id, name, val) ==
    [facet |-> f, variable |-> v, geo_id |-> id, geo_name |-> name, value |-> val]

\* the rows the Anthropic CSV can hold: usage counts and GDP of two countries,
\* an unclassified usage row and a row of another facet
AnthropicRows ==
    {AnthropicRow("country", "usage_count", g[1], GeoName(g[1]), Num(g[2], 1)) :
        g \in {<<"FRA", 4>>, <<"USA", 4>>, <<"USA", 0>>}}
    \cup {AnthropicRow("country", "gdp_per_working_age_capita", g, GeoName(g), Num(2 * GdpScale, 1)) :
        g \in {"FRA", "USA"}}
    \cup {AnthropicRow("country", "usage_count", "not_classified", "not_classified", Num(4, 1)),
          AnthropicRow("state_us", "usage_count", "USA", "United States", Num(4, 1))}

FindexRow(y, g, net, code, pop) ==
    [year |-> y, group |-> g, internet |-> net, codewb |-> code,
     countrynewwb |-> FindexName(code), pop_adult |-> pop]

\* the rows the Findex CSV can hold: two countries with an adult population
\* of 0 or 10 or none given, half of it online, and rows the filter of
\* estimate_chatgpt_users rejects
FindexRows ==
    {FindexRow(2024, "all", Num(1, 2), c, Num(p, 1)) : c \in {"FRA", "USA"}, p \in {0, 10}}
    \cup {FindexRow(2024, "all", Num(1, 2), "USA", NaN),
          FindexRow(2024, "all", NaN, "FRA", Num(10, 1)),
          FindexRow(2021, "all", Num(1, 2), "USA", Num(10, 1)),
          FindexRow(2024, "female", Num(1, 2), "FRA", Num(10, 1))}

\* data/wau_share_by_gdp.csv as load_wau_data reads it: a curve of two points
WauFile ==
    <<[time_period |-> "May 2025", gdp_per_capita_thousands_usd |-> Num(1, 1),
       median_wau_share_internet_users |-> Num(1, 10)],
      [time_period |-> "May 2025", gdp_per_capita_thousands_usd |-> Num(3, 1),
       median_wau_share_internet_users |-> Num(3, 10)]>>

\* lines 87-102
get_claude_users(df) ==
    MapSeq(SelectSeq(df, LAMBDA r : /\ r.facet = "country"
                                    /\ r.variable = "usage_count"
                                    /\ r.geo_name # "not_classified"),
           LAMBDA r : [iso3 |-> r.geo_id, country_name |-> r.geo_name,
                       claude_users |-> r.value])

\* lines 105-118
get_gdp_per_capita(df) ==
    MapSeq(SelectSeq(df, LAMBDA r : /\ r.facet = "country"
                                    /\ r.variable = "gdp_per_working_age_capita"
                                    /\ r.geo_name # "not_classified"),
           LAMBDA r : [iso3 |-> r.geo_id, gdp_per_capita |-> r.value])

\* lines 154-163: the 2024 rows of group 'all' with an internet share, and
\* their internet users
Findex2024(df) ==
    MapSeq(SelectSeq(df, LAMBDA r : /\ r.year = 2024
                                    /\ r.group = "all"
                                    /\ ~IsNaN(r.internet)),
           LAMBDA r : [iso3 |-> r.codewb, country_name_findex |-> r.countrynewwb,
                       pop_adult |-> r.pop_adult, internet |-> r.internet,
                       internet_users |-> FMul(r.pop_adult, r.internet)])

\* line 166
FindexGdpMerged(gdp, findex) == InnerMerge(Findex2024(findex), gdp, {"iso3"})

\* lines 146-177, with pd the sorted curve interpolate_wau_share selects
estimate_chatgpt_users(gdp, findex, pd) ==
    MapSeq(FindexGdpMerged(gdp, findex),
           LAMBDA r :
               [iso3 |-> r.iso3, country_name_findex |-> r.country_name_findex,
                pop_adult |-> r.pop_adult, internet_users |-> r.internet_users,
                chatgpt_users |->
                    FMul(r.internet_users,
                         InterpolateSorted(FDiv(r.gdp_per_capita, Num(GdpScale, 1)), pd))])

\* the columns a key of one table only gets for the other table
ClaudeNull == [country_name |-> NullStr, claude_users |-> NaN]
ChatgptNull == [country_name_findex |-> NullStr, pop_adult |-> NaN,
                internet_users |-> NaN, chatgpt_users |-> NaN]

\* how='inner' in place of how='outer'
MergeClaudeChatgptRowsInner(claude, chatgpt) == InnerMerge(claude, chatgpt, {"iso3"})

\* line 208
MergeClaudeChatgptRows(claude, chatgpt) ==
    OuterMerge(claude, chatgpt, "iso3", ClaudeNull, ChatgptNull)

\* the fillna(0) of lines 211-212 left out
FillNaKeep(v) == v

\* .fillna(0)
FillNa0(v) == IF IsNaN(v) THEN Num(0, 1) ELSE v

\* line 219
PerCapita(total, pop) == FDiv(total, pop)

\* lines 211-220 on one row
DeriveRow(r) ==
    LET claude == FillNa0(r.claude_users)
        chatgpt == FillNa0(r.chatgpt_users)
        total == FAdd(claude, chatgpt)
    IN  [iso3 |-> r.iso3,
         country_name |-> IF r.country_name = NullStr THEN r.country_name_findex
                          ELSE r.country_name,
         country_name_findex |-> r.country_name_findex,
         claude_users |-> claude,
         chatgpt_users |-> chatgpt,
         pop_adult |-> r.pop_adult,
         internet_users |-> r.internet_users,
         total_ai_users |-> total,
         ai_users_per_capita |-> PerCapita(total, r.pop_adult),
         ai_users_per_internet |-> FDiv(total, r.internet_users)]

\* the filter of line 230 with >= in place of >
CleanUpRowsKeepZero(df) ==
    SelectSeq(MapSeq(df, LAMBDA r :
                  [iso3 |-> r.iso3, country_name |-> r.country_name,
                   claude_users |-> r.claude_users, chatgpt_users |-> r.chatgpt_users,
                   total_ai_users |-> r.total_ai_users, pop_adult |-> r.pop_adult,
                   internet_users |-> r.internet_users,
                   ai_users_per_capita |-> r.ai_users_per_capita,
                   ai_users_per_internet |-> r.ai_users_per_internet]),
              LAMBDA r : FGe(r.total_ai_users, Num(0, 1)))

\* lines 223-230: the nine columns, and the rows with AI users
CleanUpRows(df) ==
    SelectSeq(MapSeq(df, LAMBDA r :
                  [iso3 |-> r.iso3, country_name |-> r.country_name,
                   claude_users |-> r.claude_users, chatgpt_users |-> r.chatgpt_users,
                   total_ai_users |-> r.total_ai_users, pop_adult |-> r.pop_adult,
                   internet_users |-> r.internet_users,
                   ai_users_per_capita |-> r.ai_users_per_capita,
                   ai_users_per_internet |-> r.ai_users_per_internet]),
              LAMBDA r : FGt(r.total_ai_users, Num(0, 1)))

\* lines 18-19, and line 18 of economic_index_analysis.py (the same file)
ANTHROPIC_URL == "https://huggingface.co/datasets/Anthropic/EconomicIndex/resolve/main/release_2025_09_15/data/output/aei_enriched_claude_ai_2025-08-04_to_2025-08-11.csv"
FINDEX_URL == "https://huggingface.co/datasets/stablefusiondance/WorldBankDataDive2025/resolve/main/GlobalFindexDatabase2025.csv"
DATA_URL == ANTHROPIC_URL

\* lines 64 and 74: requests.get(..., timeout=120)
Timeout == 120

\* how a request can end: a response with a success status; no response in
\* time or no connection (requests.get raises); a response with an error
\* status (raise_for_status raises)
HttpOutcomes == {"ok", "timeout", "connection_error", "error_status"}

\* requests.get(url, timeout=Timeout), as it ended
Request(url, outcome) == [url |-> url, timeout |-> Timeout, outcome |-> outcome]

\* a failed request made again, once, instead of raising
LoadAnthropicDataRetry ==
    /\ pc = "load_anthropic"
    /\ \E o \in HttpOutcomes :
          /\ requests_get' = Append(requests_get, Request(ANTHROPIC_URL, o))
          /\ IF o = "ok"
             THEN /\ \E t \in SeqsUpTo(AnthropicRows, MaxAnthropicRows) : anthropic_df' = t
                  /\ pc' = "load_findex"
             ELSE /\ pc' = IF requests_get = <<>> THEN "load_anthropic" ELSE "raised"
                  /\ UNCHANGED anthropic_df
    /\ UNCHANGED <<findex_df, claude_df, gdp_df, chatgpt_df, combined, result>>
    /\ UNCHANGED <<interpVars, table4Vars, iso_calls, main_df>>

\* lines 61-68 and 196: one request; the CSV of a response with a success
\* status is parsed; otherwise requests.get or raise_for_status raises and
\* load_ai_users_data ends with the exception
LoadAnthropicData ==
    /\ pc = "load_anthropic"
    /\ \E o \in HttpOutcomes :
          /\ requests_get' = Append(requests_get, Request(ANTHROPIC_URL, o))
          /\ IF o = "ok"
             THEN /\ \E t \in SeqsUpTo(AnthropicRows, MaxAnthropicRows) : anthropic_df' = t
                  /\ pc' = "load_findex"
             ELSE /\ pc' = "raised"
                  /\ UNCHANGED anthropic_df
    /\ UNCHANGED <<findex_df, claude_df, gdp_df, chatgpt_df, combined, result>>
    /\ UNCHANGED <<interpVars, table4Vars, iso_calls, main_df>>

\* lines 71-78 and 197
LoadFindexData ==
    /\ pc = "load_findex"
    /\ \E o \in HttpOutcomes :
          /\ requests_get' = Append(requests_get, Request(FINDEX_URL, o))
          /\ IF o = "ok"
             THEN /\ \E t \in SeqsUpTo(FindexRows, MaxFindexRows) : findex_df' = t
                  /\ pc' = "load_wau"
             ELSE /\ pc' = "raised"
                  /\ UNCHANGED findex_df
    /\ UNCHANGED <<anthropic_df, claude_df, gdp_df, chatgpt_df, combined, result>>
    /\ UNCHANGED <<interpVars, table4Vars, iso_calls, main_df>>

\* economic_index_analysis.py, lines 21-32 and 304: main calls download_data
DownloadData ==
    /\ pc = "download_data"
    /\ \E o \in HttpOutcomes :
          /\ requests_get' = Append(requests_get, Request(DATA_URL, o))
          /\ IF o = "ok"
             THEN /\ \E t \in SeqsUpTo(AnthropicRows, MaxAnthropicRows) : main_df' = t
                  /\ pc' = "downloaded"
             ELSE /\ pc' = "raised"
                  /\ UNCHANGED main_df
    /\ UNCHANGED <<interpVars, aiVars, table4Vars, iso_calls>>

\* lines 81-84 and 198
LoadWauData ==
    /\ pc = "load_wau"
    /\ wau_df' = WauFile
    /\ pc' = "get_claude_users"
    /\ UNCHANGED <<time_period, gdp_k, period_data, wau_share, aiVars, table4Vars>>
    /\ UNCHANGED <<isoVars, httpVars>>

\* line 201
GetClaudeUsers ==
    /\ pc = "get_claude_users"
    /\ claude_df' = get_claude_users(anthropic_df)
    /\ pc' = "get_gdp_per_capita"
    /\ UNCHANGED <<anthropic_df, findex_df, gdp_df, chatgpt_df, combined, result>>
    /\ UNCHANGED <<interpVars, table4Vars>>
    /\ UNCHANGED <<isoVars, httpVars>>

\* line 202
GetGdpPerCapita ==
    /\ pc = "get_gdp_per_capita"
    /\ gdp_df' = get_gdp_per_capita(anthropic_df)
    /\ pc' = "estimate_chatgpt_users"
    /\ UNCHANGED <<anthropic_df, findex_df, claude_df, chatgpt_df, combined, result>>
    /\ UNCHANGED <<interpVars, table4Vars>>
    /\ UNCHANGED <<isoVars, httpVars>>

\* line 158 without its .copy(), the selection taken as a view: the renaming
\* of line 160 and the new column of line 163 reach the caller's Findex table
EstimateChatgptUsersInPlace ==
    /\ pc = "estimate_chatgpt_users"
    /\ \E pd \in SortValues(FilterPeriod(wau_df, time_period)) :
          /\ period_data' = pd
          /\ chatgpt_df' = estimate_chatgpt_users(gdp_df, findex_df, pd)
    /\ findex_df' = Findex2024(findex_df)
    /\ pc' = "merge"
    /\ UNCHANGED <<anthropic_df, claude_df, gdp_df, combined, result>>
    /\ UNCHANGED <<wau_df, time_period, gdp_k, wau_share, table4Vars>>
    /\ UNCHANGED <<isoVars, httpVars>>

\* line 205
EstimateChatgptUsers ==
    /\ pc = "estimate_chatgpt_users"
    /\ \E pd \in SortValues(FilterPeriod(wau_df, time_period)) :
          /\ period_data' = pd
          /\ chatgpt_df' = estimate_chatgpt_users(gdp_df, findex_df, pd)
    /\ pc' = "merge"
    /\ UNCHANGED <<anthropic_df, findex_df, claude_df, gdp_df, combined, result>>
    /\ UNCHANGED <<wau_df, time_period, gdp_k, wau_share, table4Vars>>
    /\ UNCHANGED <<isoVars, httpVars>>

\* line 208
MergeClaudeChatgpt ==
    /\ pc = "merge"
    /\ combined' = MergeClaudeChatgptRows(claude_df, chatgpt_df)
    /\ pc' = "derive"
    /\ UNCHANGED <<anthropic_df, findex_df, claude_df, gdp_df, chatgpt_df, result>>
    /\ UNCHANGED <<interpVars, table4Vars>>
    /\ UNCHANGED <<isoVars, httpVars>>

\* lines 211-220
FillAndDerive ==
    /\ pc = "derive"
    /\ combined' = MapSeq(combined, DeriveRow)
    /\ pc' = "clean_up"
    /\ UNCHANGED <<anthropic_df, findex_df, claude_df, gdp_df, chatgpt_df, result>>
    /\ UNCHANGED <<interpVars, table4Vars>>
    /\ UNCHANGED <<isoVars, httpVars>>

\* lines 223-233
CleanUp ==
    /\ pc = "clean_up"
    /\ result' = CleanUpRows(combined)
    /\ pc' = "returned"
    /\ UNCHANGED <<anthropic_df, findex_df, claude_df, gdp_df, chatgpt_df, combined>>
    /\ UNCHANGED <<interpVars, table4Vars>>
    /\ UNCHANGED <<isoVars, httpVars>>

---------------------------------------------------------------------------
(* merge_datasets (comprehensive_analysis.py, lines 48-58).                *)

\* rows of each long table
MaxLongRows == 2

\* the (Country Code, Year) keys of the long tables
LongKeys == {<<"FRA", 2020>>, <<"FRA", 2021>>, <<"USA", 2020>>}

\* the indicators of the three files
PublicSectorIndicator == "BI.EMP.TOTL.PB.ZS"
FlfpIndicator == "SL.TLF.CACT.FE.ZS"
UnemploymentIndicator == "SL.UEM.TOTL.FE.ZS"

\* the tables load_and_clean_data can return: rows with a year and a value
PublicSectorRows ==
    {[Country_Code |-> k[1], Indicator_Code |-> PublicSectorIndicator, Year |-> Num(k[2], 1),
      Public_Sector_Share |-> Num(30, 1)] : k \in LongKeys}
FlfpRows ==
    {[Country_Code |-> k[1], Indicator_Code |-> FlfpIndicator, Year |-> Num(k[2], 1),
      FLFP |-> Num(50, 1)] : k \in LongKeys}
UnemploymentRows ==
    {[Country_Code |-> k[1], Indicator_Code |-> UnemploymentIndicator, Year |-> Num(k[2], 1),
      Female_Unemployment |-> Num(8, 1)] : k \in LongKeys}

\* flfp[["Country Code", "Year", "FLFP"]]
FlfpColumns(df) ==
    MapSeq(df, LAMBDA r : [Country_Code |-> r.Country_Code, Year |-> r.Year, FLFP |-> r.FLFP])

\* unemployment[["Country Code", "Year", "Female_Unemployment"]]
UnemploymentColumns(df) ==
    MapSeq(df, LAMBDA r : [Country_Code |-> r.Country_Code, Year |-> r.Year,
                           Female_Unemployment |-> r.Female_Unemployment])

\* on=["Country Code", "Year"]
MergeKey == {"Country_Code", "Year"}

\* lines 52-53
MergeFlfpRows(ps, f) == InnerMerge(ps, FlfpColumns(f), MergeKey)

\* the second stage joined on the country alone
MergeUnemploymentRowsByCountry(m, u) ==
    InnerMerge(m, UnemploymentColumns(u), {"Country_Code"})

\* lines 54-55
MergeUnemploymentRows(m, u) == InnerMerge(m, UnemploymentColumns(u), MergeKey)

\* line 128: load_and_clean_data returns the three long tables
LoadAndCleanData ==
    /\ pc = "load_and_clean_data"
    /\ \E p \in SeqsUpTo(PublicSectorRows, MaxLongRows),
          f \in SeqsUpTo(FlfpRows, MaxLongRows),
          u \in SeqsUpTo(UnemploymentRows, MaxLongRows) :
          /\ public_sector' = p
          /\ flfp' = f
          /\ unemployment' = u
    /\ pc' = "merge_flfp"
    /\ UNCHANGED <<merged, csv, interpVars, aiVars>>
    /\ UNCHANGED <<isoVars, httpVars>>

\* lines 52-53
MergeFlfp ==
    /\ pc = "merge_flfp"
    /\ merged' = MergeFlfpRows(public_sector, flfp)
    /\ pc' = "merge_unemployment"
    /\ UNCHANGED <<public_sector, flfp, unemployment, csv, interpVars, aiVars>>
    /\ UNCHANGED <<isoVars, httpVars>>

\* lines 54-58
MergeUnemployment ==
    /\ pc = "merge_unemployment"
    /\ merged' = MergeUnemploymentRows(merged, unemployment)
    /\ pc' = "merged"
    /\ UNCHANGED <<public_sector, flfp, unemployment, csv, interpVars, aiVars>>
    /\ UNCHANGED <<isoVars, httpVars>>

---------------------------------------------------------------------------
(* The scripts: load_ai_users_data.py, comprehensive_analysis.py and the    *)
(* download of economic_index_analysis.py.                                 *)

Init ==
    /\ pc \in {"load_anthropic", "load_and_clean_data", "download_data"}
    /\ wau_df = <<>>
    /\ time_period = "May 2025"
    /\ gdp_k = NaN
    /\ period_data = <<>>
    /\ wau_share = NaN
    /\ AiIdle
    /\ Table4Idle
    /\ NoCalls

Next ==
    \/ LoadAnthropicData
    \/ LoadFindexData
    \/ LoadWauData
    \/ GetClaudeUsers
    \/ GetGdpPerCapita
    \/ EstimateChatgptUsers
    \/ MergeClaudeChatgpt
    \/ FillAndDerive
    \/ CleanUp
    \/ LoadAndCleanData
    \/ MergeFlfp
    \/ MergeUnemployment
    \/ DownloadData

Spec == Init /\ [][Next]_vars

---------------------------------------------------------------------------
(* Claims about the joins, checked under Spec.                             *)

\* the number of rows of df whose column c is v
CountWhere(df, c, v) == Cardinality({i \in 1..Len(df) : df[i][c] = v})
\* the values of column c in df
ColumnValues(df, c) == {df[i][c] : i \in 1..Len(df)}

\* the number of rows of df with Country Code and Year of key k
CountKey(df, k) ==
    Cardinality({i \in 1..Len(df) : df[i].Country_Code = k[1] /\ df[i].Year = Num(k[2], 1)})

\* the outer join of line 208 has just been made
JustMerged == pc = "derive"

\* the spec's example: A = {(US, 1)} outer-joined with B = {(FR, 2)}
C5_Example ==
    LET A == <<[iso3 |-> "USA", country_name |-> "United States", claude_users |-> Num(1, 1)]>>
        B == <<[iso3 |-> "FRA", country_name_findex |-> "France (WB)", pop_adult |-> Num(10, 1),
                internet_users |-> Num(5, 1), chatgpt_users |-> Num(2, 1)]>>
        J == MergeClaudeChatgptRows(A, B)
    IN  /\ Len(J) = 2
        /\ {J[1], J[2]} =
             {[iso3 |-> "USA", country_name |-> "United States", claude_users |-> Num(1, 1),
               country_name_findex |-> NullStr, pop_adult |-> NaN, internet_users |-> NaN,
               chatgpt_users |-> NaN],
              [iso3 |-> "FRA", country_name |-> NullStr, claude_users |-> NaN,
               country_name_findex |-> "France (WB)", pop_adult |-> Num(10, 1),
               internet_users |-> Num(5, 1), chatgpt_users |-> Num(2, 1)]}

\* C5: the outer join of the Claude and ChatGPT tables on iso3 has a row for
\* every key of either table and no other key; a row whose key is in one
\* table only has every non-key column of the other table, as a null.
C5_OuterJoin ==
    /\ C5_Example
    /\ JustMerged =>
        /\ ColumnValues(combined, "iso3")
             = ColumnValues(claude_df, "iso3") \cup ColumnValues(chatgpt_df, "iso3")
        /\ \A i \in 1..Len(combined) :
             /\ DOMAIN combined[i] =
                  {"iso3", "country_name", "claude_users", "country_name_findex",
                   "pop_adult", "internet_users", "chatgpt_users"}
             /\ combined[i].iso3 \notin ColumnValues(chatgpt_df, "iso3") =>
                  /\ combined[i].country_name_findex = NullStr
                  /\ IsNaN(combined[i].pop_adult)
                  /\ IsNaN(combined[i].internet_users)
                  /\ IsNaN(combined[i].chatgpt_users)
                  /\ \E j \in 1..Len(claude_df) :
                        /\ claude_df[j].iso3 = combined[i].iso3
                        /\ claude_df[j].country_name = combined[i].country_name
                        /\ claude_df[j].claude_users = combined[i].claude_users
             /\ combined[i].iso3 \notin ColumnValues(claude_df, "iso3") =>
                  /\ combined[i].country_name = NullStr
                  /\ IsNaN(combined[i].claude_users)
                  /\ \E j \in 1..Len(chatgpt_df) :
                        /\ chatgpt_df[j].iso3 = combined[i].iso3
                        /\ chatgpt_df[j].chatgpt_users = combined[i].chatgpt_users
                        /\ chatgpt_df[j].pop_adult = combined[i].pop_adult

\* a joined table with a Claude-only row whose count is not zero and a
\* ChatGPT-only row whose estimate is not zero
C5_Witness ==
    /\ JustMerged
    /\ \E i, j \in 1..Len(combined) :
          /\ combined[i].iso3 \notin ColumnValues(chatgpt_df, "iso3")
          /\ combined[i].claude_users # Num(0, 1)
          /\ combined[j].iso3 \notin ColumnValues(claude_df, "iso3")
          /\ IsNum(combined[j].chatgpt_users) /\ combined[j].chatgpt_users # Num(0, 1)

\* estimate_chatgpt_users has returned
Estimated == pc \in {"merge", "derive", "clean_up", "returned"}

\* C6: an inner join has a row for a key exactly when the key is in both
\* inputs, one row per pair of rows with that key: the Findex-GDP join on
\* iso3 (its rows are those of chatgpt_df), and both stages of merge_datasets
\* on (Country Code, Year).
C6_InnerJoin ==
    /\ Estimated =>
         /\ ColumnValues(chatgpt_df, "iso3")
              = ColumnValues(Findex2024(findex_df), "iso3") \cap ColumnValues(gdp_df, "iso3")
         /\ \A v \in ColumnValues(chatgpt_df, "iso3") :
              CountWhere(chatgpt_df, "iso3", v)
                = CountWhere(Findex2024(findex_df), "iso3", v) * CountWhere(gdp_df, "iso3", v)
    /\ pc = "merge_unemployment" =>
         \A k \in LongKeys :
             /\ CountKey(merged, k) = CountKey(public_sector, k) * CountKey(flfp, k)
             /\ CountKey(merged, k) > 0 <=> (CountKey(public_sector, k) > 0 /\ CountKey(flfp, k) > 0)
    /\ pc = "merged" =>
         /\ \A k \in LongKeys :
              CountKey(merged, k)
                = CountKey(public_sector, k) * CountKey(flfp, k) * CountKey(unemployment, k)
         /\ \A i \in 1..Len(merged) :
              \E k \in LongKeys : merged[i].Country_Code = k[1] /\ merged[i].Year = Num(k[2], 1)

\* merge_datasets has kept a key of all three tables and dropped a
\* public-sector row whose key one of the other tables lacks
C6_Witness ==
    /\ pc = "merged" /\ merged # <<>>
    /\ Len(merged) < Len(public_sector)

\* the Findex-GDP join has kept a country and dropped a GDP row without Findex
C6_WitnessFindex ==
    /\ Estimated /\ chatgpt_df # <<>>
    /\ Len(chatgpt_df) < Len(gdp_df)

\* C7: the rows of the three-way merge do not depend on the order of the
\* joins: (P join F) join U, P join (F join U) and (P join U) join F have the
\* same rows, each as many times.
C7_JoinOrder ==
    pc = "merged" =>
        /\ SeqToBag(merged)
             = SeqToBag(InnerMerge(public_sector,
                                   InnerMerge(FlfpColumns(flfp),
                                              UnemploymentColumns(unemployment), MergeKey),
                                   MergeKey))
        /\ SeqToBag(merged)
             = SeqToBag(MergeFlfpRows(MergeUnemploymentRows(public_sector, unemployment), flfp))

\* a merge with rows left, from tables with different key sets
C7_Witness ==
    /\ pc = "merged" /\ merged # <<>>
    /\ Len(flfp) = MaxLongRows /\ Len(unemployment) = MaxLongRows
    /\ \E k \in LongKeys : CountKey(flfp, k) > 0 /\ CountKey(unemployment, k) = 0

\* lines 211-220 have run
Derived == pc \in {"clean_up", "returned"}

\* C10 as stated: in every row of the joined table ai_users_per_capita is
\* null whenever pop_adult is null or zero.
C10_PerCapitaNullOnZeroPopulation ==
    Derived =>
        \A i \in 1..Len(combined) :
            (IsNaN(combined[i].pop_adult) \/ combined[i].pop_adult = Num(0, 1))
                => IsNaN(combined[i].ai_users_per_capita)

\* load_ai_users_data has returned its table
Returned == pc = "returned"

\* the columns of the returned table
ResultColumns ==
    {"iso3", "country_name", "claude_users", "chatgpt_users", "total_ai_users",
     "pop_adult", "internet_users", "ai_users_per_capita", "ai_users_per_internet"}

\* row r of the joined table, cut to the columns of the returned table
Project(r) == [c \in ResultColumns |-> r[c]]

\* the joined rows that have AI users
WithUsers == {i \in 1..Len(combined) : FGt(combined[i].total_ai_users, Num(0, 1))}

\* C11: every row of the returned table has total_ai_users > 0 and exactly
\* the nine columns; every joined row with total_ai_users > 0 is kept (as
\* many times as it occurs) and every joined row with total_ai_users <= 0 is
\* removed.
C11_ResultRows ==
    Returned =>
        /\ \A i \in 1..Len(result) :
              /\ DOMAIN result[i] = ResultColumns
              /\ FGt(result[i].total_ai_users, Num(0, 1))
        /\ Len(result) = Cardinality(WithUsers)
        /\ \A i \in 1..Len(combined) :
              IF i \in WithUsers
              THEN Cardinality({j \in 1..Len(result) : result[j] = Project(combined[i])})
                     = Cardinality({j \in WithUsers : Project(combined[j]) = Project(combined[i])})
              ELSE FLe(combined[i].total_ai_users, Num(0, 1))
                     => \A j \in 1..Len(result) : result[j] # Project(combined[i])

\* a joined table with a row of no AI users, removed, and a row with AI
\* users, kept
C11_Witness ==
    /\ Returned /\ result # <<>>
    /\ \E i \in 1..Len(combined) : combined[i].total_ai_users = Num(0, 1)
    /\ Len(result) < Len(combined)

\* the requests made to url, by their place in the log
RequestsTo(url) == {i \in 1..Len(requests_get) : requests_get[i].url = url}

\* the i-th request timed out, found no connection or got an error status
Failed(i) == requests_get[i].outcome # "ok"

\* nothing was extracted, estimated, joined, derived or returned
NoLaterStep ==
    /\ wau_df = <<>> /\ claude_df = <<>> /\ gdp_df = <<>> /\ chatgpt_df = <<>>
    /\ combined = <<>> /\ result = <<>>

\* at most one request per dataset, each with the timeout; a failed request
\* is the last one made, the run has ended with its error, the load made no
\* table and no later step has run; a load that returned made one request,
\* which succeeded
OneRequestPerLoad ==
    /\ \A i \in 1..Len(requests_get) : requests_get[i].timeout = Timeout
    /\ \A u \in {ANTHROPIC_URL, FINDEX_URL, DATA_URL} : Cardinality(RequestsTo(u)) <= 1
    /\ \A i \in 1..Len(requests_get) :
          Failed(i) =>
              /\ i = Len(requests_get)
              /\ pc = "raised"
              /\ NoLaterStep
              /\ findex_df = <<>>
              /\ requests_get[i].url = ANTHROPIC_URL => anthropic_df = <<>> /\ main_df = <<>>
    /\ pc = "raised" => requests_get # <<>> /\ Failed(Len(requests_get))
    /\ pc = "load_findex" => requests_get = <<Request(ANTHROPIC_URL, "ok")>>
    /\ pc \in {"load_wau", "get_claude_users", "get_gdp_per_capita", "estimate_chatgpt_users",
               "merge", "derive", "clean_up", "returned"}
          => requests_get = <<Request(ANTHROPIC_URL, "ok"), Request(FINDEX_URL, "ok")>>
    /\ pc = "downloaded" => requests_get = <<Request(DATA_URL, "ok")>>

\* C13: each remote load makes exactly one request, with the timeout, and
\* never retries; a request that times out, fails or returns an error status
\* raises and the load makes no table; in load_ai_users_data a failed fetch
\* ends the run: no step is ever taken after it, so no later fetch, join or
\* derivation runs and no result table is returned.
C13_FetchOnce == []OneRequestPerLoad /\ [][pc # "raised"]_vars

\* the Anthropic table fetched, then the Findex request answered with an
\* error status
C13_Witness ==
    /\ pc = "raised" /\ Len(requests_get) = 2
    /\ requests_get[1] = Request(ANTHROPIC_URL, "ok") /\ anthropic_df # <<>>
    /\ requests_get[2] = Request(FINDEX_URL, "error_status")

\* C14: no operation changes a table it was given: get_claude_users and
\* get_gdp_per_capita leave anthropic_df as it was; estimate_chatgpt_users,
\* and interpolate_wau_share which it calls for every row, leave gdp_df,
\* findex_df and wau_df as they were; both joins of merge_datasets leave
\* public_sector, flfp and unemployment as they were; and the result is a
\* table of its own: the in-place steps made later on a result (lines
\* 211-220 on the joined table) change none of the tables it was made from.
C14_InputsUnchanged ==
    [][/\ pc \in {"get_claude_users", "get_gdp_per_capita"} => anthropic_df' = anthropic_df
       /\ pc = "estimate_chatgpt_users" => UNCHANGED <<gdp_df, findex_df, wau_df>>
       /\ pc \in {"merge_flfp", "merge_unemployment"}
             => UNCHANGED <<public_sector, flfp, unemployment>>
       /\ pc \in {"merge", "derive", "clean_up"}
             => UNCHANGED <<anthropic_df, findex_df, wau_df, claude_df, gdp_df, chatgpt_df>>
       /\ pc = "clean_up" => combined' = combined]_vars

\* estimate_chatgpt_users has returned a table with rows, made from a Findex
\* table, a GDP table and a Claude table with rows
C14_Witness ==
    /\ pc = "merge"
    /\ anthropic_df # <<>> /\ findex_df # <<>> /\ wau_df # <<>>
    /\ claude_df # <<>> /\ gdp_df # <<>> /\ chatgpt_df # <<>>
    /\ findex_df # Findex2024(findex_df)

\* merge_datasets has returned a table with rows
C14_WitnessMerge ==
    /\ pc = "merged" /\ merged # <<>>
    /\ public_sector # <<>> /\ flfp # <<>> /\ unemployment # <<>>

\* a count, with 0 for one that is missing
OrZero(v) == IF IsNaN(v) THEN Num(0, 1) ELSE v

\* row i of the joined table is of a country with Claude data, with ChatGPT
\* estimates
InClaude(i) == combined[i].iso3 \in ColumnValues(claude_df, "iso3")
InChatgpt(i) == combined[i].iso3 \in ColumnValues(chatgpt_df, "iso3")

\* C15: on every row of the joined table total_ai_users is claude_users +
\* chatgpt_users, where the count of a country that only the other table has
\* is 0: a country with only Claude data has chatgpt_users = 0 and
\* total_ai_users = claude_users, the Claude table's count; a country with
\* only ChatGPT estimates has claude_users = 0 and total_ai_users =
\* chatgpt_users, the estimate; country_name is the Claude table's name when
\* there is one and the Findex name otherwise.
C15_TotalAndName ==
    Derived =>
        \A i \in 1..Len(combined) :
            /\ combined[i].total_ai_users
                  = FAdd(combined[i].claude_users, combined[i].chatgpt_users)
            /\ ~IsNaN(combined[i].total_ai_users)
            /\ InClaude(i) =>
                  \E j \in 1..Len(claude_df) :
                      /\ claude_df[j].iso3 = combined[i].iso3
                      /\ combined[i].claude_users = OrZero(claude_df[j].claude_users)
                      /\ combined[i].country_name = claude_df[j].country_name
            /\ InChatgpt(i) =>
                  \E j \in 1..Len(chatgpt_df) :
                      /\ chatgpt_df[j].iso3 = combined[i].iso3
                      /\ combined[i].chatgpt_users = OrZero(chatgpt_df[j].chatgpt_users)
                      /\ ~InClaude(i)
                            => combined[i].country_name = chatgpt_df[j].country_name_findex
            /\ ~InChatgpt(i) =>
                  /\ combined[i].chatgpt_users = Num(0, 1)
                  /\ combined[i].total_ai_users = combined[i].claude_users
            /\ ~InClaude(i) =>
                  /\ combined[i].claude_users = Num(0, 1)
                  /\ combined[i].total_ai_users = combined[i].chatgpt_users

\* a country with only Claude data and a country with only ChatGPT
\* estimates, each with users
C15_Witness ==
    /\ Derived
    /\ \E i, j \in 1..Len(combined) :
          /\ ~InChatgpt(i) /\ FGt(combined[i].total_ai_users, Num(0, 1))
          /\ combined[i].country_name = GeoName(combined[i].iso3)
          /\ ~InClaude(j) /\ FGt(combined[j].total_ai_users, Num(0, 1))
          /\ combined[j].country_name = FindexName(combined[j].iso3)

\* a country of both tables, with users of both
C15_WitnessBoth ==
    /\ Derived
    /\ \E i \in 1..Len(combined) :
          /\ InClaude(i) /\ InChatgpt(i)
          /\ FGt(combined[i].claude_users, Num(0, 1))
          /\ FGt(combined[i].chatgpt_users, Num(0, 1))
          /\ combined[i].country_name = GeoName(combined[i].iso3)

---------------------------------------------------------------------------
(* iso2_to_iso3 (load_ai_users_data.py, lines 24-58). Codes are sequences  *)
(* of characters.                                                          *)

\* calls of iso2_to_iso3 in one behaviour
MaxCalls == 2

\* lines 27-57: the dictionary the function builds on every call
ISO2_TO_ISO3 ==
    <<"A", "F">> :> "AFG" @@ <<"A", "L">> :> "ALB" @@ <<"D", "Z">> :> "DZA"
    @@ <<"A", "R">> :> "ARG" @@ <<"A", "M">> :> "ARM" @@ <<"A", "U">> :> "AUS"
    @@ <<"A", "T">> :> "AUT" @@ <<"A", "Z">> :> "AZE" @@ <<"B", "H">> :> "BHR"
    @@ <<"B", "D">> :> "BGD" @@ <<"B", "Y">> :> "BLR" @@ <<"B", "E">> :> "BEL"
    @@ <<"B", "J">> :> "BEN" @@ <<"B", "O">> :> "BOL" @@ <<"B", "A">> :> "BIH"
    @@ <<"B", "W">> :> "BWA" @@ <<"B", "R">> :> "BRA" @@ <<"B", "G">> :> "BGR"
    @@ <<"B", "F">> :> "BFA" @@ <<"B", "I">> :> "BDI" @@ <<"K", "H">> :> "KHM"
    @@ <<"C", "M">> :> "CMR" @@ <<"C", "A">> :> "CAN" @@ <<"C", "F">> :> "CAF"
    @@ <<"T", "D">> :> "TCD" @@ <<"C", "L">> :> "CHL" @@ <<"C", "N">> :> "CHN"
    @@ <<"C", "O">> :> "COL" @@ <<"C", "G">> :> "COG" @@ <<"C", "D">> :> "COD"
    @@ <<"C", "R">> :> "CRI" @@ <<"C", "I">> :> "CIV" @@ <<"H", "R">> :> "HRV"
    @@ <<"C", "Y">> :> "CYP" @@ <<"C", "Z">> :> "CZE" @@ <<"D", "K">> :> "DNK"
    @@ <<"D", "O">> :> "DOM" @@ <<"E", "C">> :> "ECU" @@ <<"E", "G">> :> "EGY"
    @@ <<"S", "V">> :> "SLV" @@ <<"E", "E">> :> "EST" @@ <<"E", "T">> :> "ETH"
    @@ <<"F", "I">> :> "FIN" @@ <<"F", "R">> :> "FRA" @@ <<"G", "A">> :> "GAB"
    @@ <<"G", "E">> :> "GEO" @@ <<"D", "E">> :> "DEU" @@ <<"G", "H">> :> "GHA"
    @@ <<"G", "R">> :> "GRC" @@ <<"G", "T">> :> "GTM" @@ <<"G", "N">> :> "GIN"
    @@ <<"H", "T">> :> "HTI" @@ <<"H", "N">> :> "HND" @@ <<"H", "K">> :> "HKG"
    @@ <<"H", "U">> :> "HUN" @@ <<"I", "S">> :> "ISL" @@ <<"I", "N">> :> "IND"
    @@ <<"I", "D">> :> "IDN" @@ <<"I", "R">> :> "IRN" @@ <<"I", "Q">> :> "IRQ"
    @@ <<"I", "E">> :> "IRL" @@ <<"I", "L">> :> "ISR" @@ <<"I", "T">> :> "ITA"
    @@ <<"J", "M">> :> "JAM" @@ <<"J", "P">> :> "JPN" @@ <<"J", "O">> :> "JOR"
    @@ <<"K", "Z">> :> "KAZ" @@ <<"K", "E">> :> "KEN" @@ <<"K", "R">> :> "KOR"
    @@ <<"K", "W">> :> "KWT" @@ <<"K", "G">> :> "KGZ" @@ <<"L", "A">> :> "LAO"
    @@ <<"L", "V">> :> "LVA" @@ <<"L", "B">> :> "LBN" @@ <<"L", "R">> :> "LBR"
    @@ <<"L", "Y">> :> "LBY" @@ <<"L", "T">> :> "LTU" @@ <<"L", "U">> :> "LUX"
    @@ <<"M", "G">> :> "MDG" @@ <<"M", "W">> :> "MWI" @@ <<"M", "Y">> :> "MYS"
    @@ <<"M", "L">> :> "MLI" @@ <<"M", "T">> :> "MLT" @@ <<"M", "R">> :> "MRT"
    @@ <<"M", "U">> :> "MUS" @@ <<"M", "X">> :> "MEX" @@ <<"M", "D">> :> "MDA"
    @@ <<"M", "N">> :> "MNG" @@ <<"M", "E">> :> "MNE" @@ <<"M", "A">> :> "MAR"
    @@ <<"M", "Z">> :> "MOZ" @@ <<"M", "M">> :> "MMR" @@ <<"N", "A">> :> "NAM"
    @@ <<"N", "P">> :> "NPL" @@ <<"N", "L">> :> "NLD" @@ <<"N", "Z">> :> "NZL"
    @@ <<"N", "I">> :> "NIC" @@ <<"N", "E">> :> "NER" @@ <<"N", "G">> :> "NGA"
    @@ <<"N", "O">> :> "NOR" @@ <<"O", "M">> :> "OMN" @@ <<"P", "K">> :> "PAK"
    @@ <<"P", "A">> :> "PAN" @@ <<"P", "Y">> :> "PRY" @@ <<"P", "E">> :> "PER"
    @@ <<"P", "H">> :> "PHL" @@ <<"P", "L">> :> "POL" @@ <<"P", "T">> :> "PRT"
    @@ <<"Q", "A">> :> "QAT" @@ <<"R", "O">> :> "ROU" @@ <<"R", "U">> :> "RUS"
    @@ <<"R", "W">> :> "RWA" @@ <<"S", "A">> :> "SAU" @@ <<"S", "N">> :> "SEN"
    @@ <<"R", "S">> :> "SRB" @@ <<"S", "L">> :> "SLE" @@ <<"S", "G">> :> "SGP"
    @@ <<"S", "K">> :> "SVK" @@ <<"S", "I">> :> "SVN" @@ <<"Z", "A">> :> "ZAF"
    @@ <<"E", "S">> :> "ESP" @@ <<"L", "K">> :> "LKA" @@ <<"S", "D">> :> "SDN"
    @@ <<"S", "E">> :> "SWE" @@ <<"C", "H">> :> "CHE" @@ <<"S", "Y">> :> "SYR"
    @@ <<"T", "W">> :> "TWN" @@ <<"T", "J">> :> "TJK" @@ <<"T", "Z">> :> "TZA"
    @@ <<"T", "H">> :> "THA" @@ <<"T", "G">> :> "TGO" @@ <<"T", "N">> :> "TUN"
    @@ <<"T", "R">> :> "TUR" @@ <<"U", "G">> :> "UGA" @@ <<"U", "A">> :> "UKR"
    @@ <<"A", "E">> :> "ARE" @@ <<"G", "B">> :> "GBR" @@ <<"U", "S">> :> "USA"
    @@ <<"U", "Y">> :> "URY" @@ <<"U", "Z">> :> "UZB" @@ <<"V", "E">> :> "VEN"
    @@ <<"V", "N">> :> "VNM" @@ <<"Y", "E">> :> "YEM" @@ <<"Z", "M">> :> "ZMB"
    @@ <<"Z", "W">> :> "ZWE"

LowerChars ==
    <<"a", "b", "c", "d", "e", "f", "g", "h", "i", "j", "k", "l", "m",
      "n", "o", "p", "q", "r", "s", "t", "u", "v", "w", "x", "y", "z">>
UpperChars ==
    <<"A", "B", "C", "D", "E", "F", "G", "H", "I", "J", "K", "L", "M",
      "N", "O", "P", "Q", "R", "S", "T", "U", "V", "W", "X", "Y", "Z">>

\* str.upper() on one character and on a string
UpperChar(c) ==
    IF \E i \in 1..Len(LowerChars) : LowerChars[i] = c
    THEN UpperChars[CHOOSE i \in 1..Len(LowerChars) : LowerChars[i] = c]
    ELSE c
upper(s) == [i \in 1..Len(s) |-> UpperChar(s[i])]

\* Python's None, the value dict.get returns for a missing key
None == "None"

\* what a subscript ISO2_TO_ISO3[...] gives for a missing key
KeyError == "KeyError"

\* the dictionary subscripted instead of .get: a missing key raises
iso2_to_iso3_subscript(iso2) ==
    IF upper(iso2) \in DOMAIN ISO2_TO_ISO3 THEN ISO2_TO_ISO3[upper(iso2)] ELSE KeyError

\* line 58: ISO2_TO_ISO3.get(iso2.upper())
iso2_to_iso3(iso2) ==
    IF upper(iso2) \in DOMAIN ISO2_TO_ISO3 THEN ISO2_TO_ISO3[upper(iso2)] ELSE None

\* the characters of the codes the function is called with
CodeChars == {"U", "S", "u", "s", "Z", "R"}
\* the two-letter codes over CodeChars
Codes == [1..2 -> CodeChars]

\* one call of iso2_to_iso3, with its result
Iso2ToIso3 ==
    /\ pc = "iso2_to_iso3"
    /\ Len(iso_calls) < MaxCalls
    /\ \E c \in Codes :
          iso_calls' = Append(iso_calls, [iso2 |-> c, result |-> iso2_to_iso3(c)])
    /\ UNCHANGED <<pc, interpVars, aiVars, table4Vars, httpVars>>

InitIso ==
    /\ pc = "iso2_to_iso3"
    /\ wau_df = <<>>
    /\ time_period = "May 2025"
    /\ gdp_k = NaN
    /\ period_data = <<>>
    /\ wau_share = NaN
    /\ AiIdle
    /\ Table4Idle
    /\ NoCalls

NextIso == Iso2ToIso3

SpecIso == InitIso /\ [][NextIso]_vars

---------------------------------------------------------------------------
(* Claims about iso2_to_iso3, checked under SpecIso.                       *)

\* the three-letter codes of the dictionary
Iso3Codes == {ISO2_TO_ISO3[k] : k \in DOMAIN ISO2_TO_ISO3}

\* a code the dictionary has, whatever the case of its letters
Recognized(code) == upper(code) \in DOMAIN ISO2_TO_ISO3

\* C12: iso2_to_iso3 is a pure lookup: a recognized two-letter code returns
\* the three-letter code the dictionary gives it ("US" gives "USA"), an
\* unrecognized one ("ZZ") returns None and nothing is raised; no table is
\* touched; the same argument gives the same result on every call.
C12_PureLookup ==
    /\ \A i \in 1..Len(iso_calls) :
          /\ Recognized(iso_calls[i].iso2)
                => /\ iso_calls[i].result = ISO2_TO_ISO3[upper(iso_calls[i].iso2)]
                   /\ iso_calls[i].result \in Iso3Codes
          /\ ~Recognized(iso_calls[i].iso2) => iso_calls[i].result = None
          /\ iso_calls[i].iso2 = <<"U", "S">> => iso_calls[i].result = "USA"
          /\ iso_calls[i].iso2 = <<"Z", "Z">> => iso_calls[i].result = None
    /\ \A i, j \in 1..Len(iso_calls) :
          iso_calls[i].iso2 = iso_calls[j].iso2 => iso_calls[i].result = iso_calls[j].result
    /\ AiIdle /\ Table4Idle /\ wau_df = <<>>

\* "ZZ" looked up, then "US"
C12_Witness ==
    /\ Len(iso_calls) = 2
    /\ iso_calls[1] = [iso2 |-> <<"Z", "Z">>, result |-> None]
    /\ iso_calls[2] = [iso2 |-> <<"U", "S">>, result |-> "USA"]

---------------------------------------------------------------------------
(* load_and_clean_data (comprehensive_analysis.py, lines 15-46): the       *)
(* wide-to-long reshape. Its three sections are independent, each reads    *)
(* its own file; a behaviour of SpecReshape reads one file and runs one    *)
(* section on it.                                                          *)

\* rows of the wide table
MaxWideRows == 2

\* column names, as sequences of characters
Col2020 == <<"2", "0", "2", "0">>
Col2021 == <<"2", "0", "2", "1">>
Col2020_5 == <<"2", "0", "2", "0", ".", "5">>
ColNotes == <<"n", "o", "t", "e", "s">>

\* the value columns a file can have, in the file's order
ColumnLists == {<<Col2020, Col2021, ColNotes>>, <<Col2020, Col2020_5>>, <<ColNotes>>}

\* a cell that read_csv leaves as a string that is no number, such as ".."
Unparseable == [k |-> "str", n |-> 0, d |-> 1]

\* what a cell can hold: nothing, a number, a string that is no number
CellValues == {NaN, Num(7, 1), Unparseable}

Range(f) == {f[x] : x \in DOMAIN f}

\* the rows a file with the value columns cols can hold: a row of the
\* public-sector indicator with any cells, and a row of another indicator
CsvRows(cols) ==
    {[Country_Code |-> "FRA", Indicator_Code |-> PublicSectorIndicator, cells |-> c] :
        c \in [Range(cols) -> CellValues]}
    \cup {[Country_Code |-> "USA", Indicator_Code |-> FlfpIndicator,
           cells |-> [n \in Range(cols) |-> Num(7, 1)]]}

DigitChars == <<"0", "1", "2", "3", "4", "5", "6", "7", "8", "9">>
IsDigits(s) == \A i \in 1..Len(s) : s[i] \in Range(DigitChars)
DigitValue(c) == (CHOOSE i \in 1..Len(DigitChars) : DigitChars[i] = c) - 1

RECURSIVE DigitsValue(_)
DigitsValue(s) ==
    IF s = <<>> THEN 0
    ELSE DigitsValue(SubSeq(s, 1, Len(s) - 1)) * 10 + DigitValue(s[Len(s)])

RECURSIVE Pow10(_)
Pow10(n) == IF n = 0 THEN 1 ELSE 10 * Pow10(n - 1)

\* pd.to_numeric(name, errors='coerce') on an unsigned decimal literal:
\* digits, or digits with one point; anything else is coerced to NaN
ToNumeric(s) ==
    LET dots == {i \in 1..Len(s) : s[i] = "."}
    IN  IF s # <<>> /\ IsDigits(s) THEN Num(DigitsValue(s), 1)
        ELSE IF Cardinality(dots) = 1 /\ Len(s) >= 2
             THEN LET i == CHOOSE j \in dots : TRUE
                      whole == SubSeq(s, 1, i - 1)
                      frac == SubSeq(s, i + 1, Len(s))
                  IN  IF IsDigits(whole) /\ IsDigits(frac)
                      THEN Num(DigitsValue(whole \o frac), Pow10(Len(frac)))
                      ELSE NaN
        ELSE NaN

RECURSIVE Melt(_, _, _)
\* .melt(id_vars=..., var_name="Year", value_name=value_name): the value
\* columns one after the other, each with every row
Melt(rows, cols, value_name) ==
    IF cols = <<>> THEN <<>>
    ELSE MapSeq(rows, LAMBDA r :
                    [Country_Code |-> r.Country_Code, Indicator_Code |-> r.Indicator_Code,
                     Year |-> Head(cols)] @@ (value_name :> r.cells[Head(cols)]))
         \o Melt(rows, Tail(cols), value_name)

\* df["Year"] = pd.to_numeric(df["Year"], errors='coerce')
YearToNumeric(df) == MapSeq(df, LAMBDA r : [r EXCEPT !.Year = ToNumeric(r.Year)])

\* dropna on the value column alone
DropNaValueOnly(df, value_name) ==
    SelectSeq(df, LAMBDA r : ~IsNaN(r[value_name]))

\* df.dropna(subset=[value_name, "Year"])
DropNa(df, value_name) ==
    SelectSeq(df, LAMBDA r : ~IsNaN(r[value_name]) /\ ~IsNaN(r.Year))

\* lines 23-28, 33-36, 41-44
WideToLong(rows, cols, value_name) ==
    DropNa(YearToNumeric(Melt(rows, cols, value_name)), value_name)

\* line 20
PublicSectorOnly(rows) == SelectSeq(rows, LAMBDA r : r.Indicator_Code = PublicSectorIndicator)

\* read_csv reads one more row of the file
ReadCsvRow ==
    /\ pc = "read_csv"
    /\ Len(csv.rows) < MaxWideRows
    /\ \E r \in CsvRows(csv.columns) : csv' = [csv EXCEPT !.rows = Append(@, r)]
    /\ UNCHANGED <<pc, public_sector, flfp, unemployment, merged, interpVars, aiVars>>
    /\ UNCHANGED <<isoVars, httpVars>>

\* lines 19-28
CleanPublicSector ==
    /\ pc = "read_csv"
    /\ public_sector' = WideToLong(PublicSectorOnly(csv.rows), csv.columns, "Public_Sector_Share")
    /\ pc' = "public_sector"
    /\ UNCHANGED <<flfp, unemployment, merged, csv, interpVars, aiVars>>
    /\ UNCHANGED <<isoVars, httpVars>>

\* lines 31-36
CleanFlfp ==
    /\ pc = "read_csv"
    /\ flfp' = WideToLong(csv.rows, csv.columns, "FLFP")
    /\ pc' = "flfp"
    /\ UNCHANGED <<public_sector, unemployment, merged, csv, interpVars, aiVars>>
    /\ UNCHANGED <<isoVars, httpVars>>

\* lines 39-44
CleanUnemployment ==
    /\ pc = "read_csv"
    /\ unemployment' = WideToLong(csv.rows, csv.columns, "Female_Unemployment")
    /\ pc' = "unemployment"
    /\ UNCHANGED <<public_sector, flfp, merged, csv, interpVars, aiVars>>
    /\ UNCHANGED <<isoVars, httpVars>>

InitReshape ==
    /\ pc = "read_csv"
    /\ wau_df = <<>>
    /\ time_period = "May 2025"
    /\ gdp_k = NaN
    /\ period_data = <<>>
    /\ wau_share = NaN
    /\ AiIdle
    /\ NoCalls
    /\ public_sector = <<>> /\ flfp = <<>> /\ unemployment = <<>> /\ merged = <<>>
    /\ \E cols \in ColumnLists : csv = [columns |-> cols, rows |-> <<>>]

NextReshape == ReadCsvRow \/ CleanPublicSector \/ CleanFlfp \/ CleanUnemployment

SpecReshape == InitReshape /\ [][NextReshape]_vars

---------------------------------------------------------------------------
(* Claims about the reshape, checked under SpecReshape.                    *)

Cleaned == pc \in {"public_sector", "flfp", "unemployment"}
\* the long table the section made, its value column, and the rows it melted
LongTable ==
    IF pc = "public_sector" THEN public_sector
    ELSE IF pc = "flfp" THEN flfp ELSE unemployment
ValueName ==
    IF pc = "public_sector" THEN "Public_Sector_Share"
    ELSE IF pc = "flfp" THEN "FLFP" ELSE "Female_Unemployment"
InputRows == IF pc = "public_sector" THEN PublicSectorOnly(csv.rows) ELSE csv.rows

\* the (row, column) cells of the input in the columns of C that hold a null
NullCells(C) ==
    {<<i, c>> \in (1..Len(InputRows)) \X C : IsNaN(InputRows[i].cells[c])}

\* the year a column name stands for, for the names of the model
YearOfName(c) ==
    IF c = Col2020 THEN Num(2020, 1)
    ELSE IF c = Col2021 THEN Num(2021, 1)
    ELSE IF c = Col2020_5 THEN Num(4041, 2)
    ELSE NaN

\* every output row comes from a column whose name is a number, which is its
\* Year, and holds a cell of that column
RowsComeFromNumericColumns ==
    \A i \in 1..Len(LongTable) :
        \E c \in Range(csv.columns) : \E j \in 1..Len(InputRows) :
            /\ c # ColNotes
            /\ LongTable[i].Year = YearOfName(c)
            /\ LongTable[i][ValueName] = InputRows[j].cells[c]
            /\ LongTable[i].Country_Code = InputRows[j].Country_Code

\* the table with value columns 2020, 2021, notes gives 2 rows per input row,
\* minus the cells of 2020 and 2021 that are null
TwoRowsPerInputRow ==
    csv.columns = <<Col2020, Col2021, ColNotes>> =>
        /\ Len(LongTable) = 2 * Len(InputRows) - Cardinality(NullCells({Col2020, Col2021}))
        /\ \A i \in 1..Len(LongTable) : LongTable[i].Year \in {Num(2020, 1), Num(2021, 1)}

\* C8 as stated: a column gives output rows only if its name parses as an
\* integer, which is the row's Year; a column such as notes gives none; the
\* table with columns 2020, 2021, notes gives 2 rows per input row minus the
\* null values.
C8_OnlyIntegerColumns ==
    Cleaned =>
        /\ RowsComeFromNumericColumns
        /\ TwoRowsPerInputRow
        /\ \A i \in 1..Len(LongTable) : LongTable[i].Year.d = 1

\* C8, amended: a column gives output rows only if its name parses as a
\* number (an integer or not, as pd.to_numeric reads it), which is the row's
\* Year; a column such as notes gives none; the table with columns 2020,
\* 2021, notes gives 2 rows per input row minus the null values.
C8_OnlyNumericColumns ==
    Cleaned =>
        /\ RowsComeFromNumericColumns
        /\ TwoRowsPerInputRow
        /\ \A i \in 1..Len(LongTable) : IsNum(LongTable[i].Year)

\* two input rows with columns 2020, 2021, notes: a null cell is dropped, the
\* notes column gives nothing, the other cells give rows
C8_Witness ==
    /\ Cleaned /\ csv.columns = <<Col2020, Col2021, ColNotes>>
    /\ Len(InputRows) = 2 /\ Len(LongTable) = 3
    /\ \E j \in 1..2 : ~IsNaN(InputRows[j].cells[ColNotes])

\* the columns of the input whose name parses as a number
YearColumns == {c \in Range(csv.columns) : IsNum(ToNumeric(c))}

\* C9 as stated: no output row has a null or unparseable Value, and the
\* number of output rows is input rows x valid year columns minus the cells
\* dropped for a null or unparseable Value.
C9_NoUnparseableValue ==
    Cleaned =>
        /\ \A i \in 1..Len(LongTable) : IsNum(LongTable[i][ValueName])
        /\ Len(LongTable) =
             Len(InputRows) * Cardinality(YearColumns)
             - Cardinality({<<i, c>> \in (1..Len(InputRows)) \X YearColumns :
                               ~IsNum(InputRows[i].cells[c])})

============================================================================
